---------------------------- MODULE Spec2Model ----------------------------
(***************************************************************************)
(* A model of the command line FTP client of src/3700ftp.js (the first,    *)
(* complete draft, lines 1-485): the control session with its login        *)
(* listener and its one-shot reply listeners, the passive data connection, *)
(* the six commands ls, mkdir, rmdir, rm, cp and mv, and an FTP server     *)
(* that answers the commands it receives in order.                         *)
(*                                                                         *)
(* Text is modelled as sequences of characters (one-character strings), so *)
(* that startsWith, the PASV regular expression, split, join and parseInt  *)
(* are computed as the code computes them.  File names and URL parts are   *)
(* single tokens of such sequences.                                        *)
(***************************************************************************)
EXTENDS Integers, Sequences, FiniteSets, TLC

(***************************************************************************)
(* Bounds of the model.                                                    *)
(***************************************************************************)
\* lines of a multi-line reply (continuation lines plus the closing line)
MaxLines == 2
\* how many replies of one control session the server sends as multi-line
MaxMulti == 1
\* chunks of a file or of a directory listing
MaxChunks == 2

(***************************************************************************)
(* Characters, numbers and strings.                                        *)
(***************************************************************************)
DigitChars == <<"0", "1", "2", "3", "4", "5", "6", "7", "8", "9">>

IsDigit(c) == \E i \in 1..10 : DigitChars[i] = c

DigitVal(c) == (CHOOSE i \in 1..10 : DigitChars[i] = c) - 1

\* the decimal text of a natural number (what a server prints)
RECURSIVE Dec(_)
Dec(n) == IF n < 10 THEN <<DigitChars[n + 1]>>
          ELSE Dec(n \div 10) \o <<DigitChars[(n % 10) + 1]>>

\* a JavaScript number: an integer or NaN
Num(v) == [nan |-> FALSE, v |-> v]
NaN == [nan |-> TRUE, v |-> 0]

RECURSIVE DigitsValue(_, _)
DigitsValue(str, acc) ==
    IF str = <<>> \/ ~IsDigit(Head(str)) THEN acc
    ELSE DigitsValue(Tail(str), acc * 10 + DigitVal(Head(str)))

RECURSIVE SkipSpaces(_)
SkipSpaces(str) ==
    IF str # <<>> /\ Head(str) \in {" ", "\n"} THEN SkipSpaces(Tail(str)) ELSE str

\* parseInt(str): leading white space skipped, an optional sign, then the
\* longest run of digits; NaN when there is no digit (or str is undefined)
ParseInt(str) ==
    LET s == SkipSpaces(str)
        neg == s # <<>> /\ Head(s) = "-"
        t == IF neg THEN Tail(s) ELSE s
    IN IF t = <<>> \/ ~IsDigit(Head(t)) THEN NaN
       ELSE Num(IF neg THEN 0 - DigitsValue(t, 0) ELSE DigitsValue(t, 0))

\* x << 8 on 32 bit integers (NaN converts to 0): the low 24 bits of x move
\* up by 8 bits, and bit 23 of x becomes the sign
ShiftLeft8(x) ==
    LET low == IF x.nan THEN 0 ELSE x.v % 16777216
    IN Num(IF low >= 8388608 THEN (low - 16777216) * 256 ELSE low * 256)

Plus(x, y) == IF x.nan \/ y.nan THEN NaN ELSE Num(x.v + y.v)

\* str.startsWith(prefix)
StartsWith(str, prefix) ==
    /\ Len(str) >= Len(prefix)
    /\ SubSeq(str, 1, Len(prefix)) = prefix

\* the test inverted
notTruthy(str) == str = <<>>

\* if (str): a string is truthy iff it is not empty
Truthy(str) == str # <<>>

\* str.split(sep) for a one-character separator
RECURSIVE Split(_, _)
Split(str, sep) ==
    IF \E i \in 1..Len(str) : str[i] = sep
    THEN LET i == CHOOSE k \in 1..Len(str) :
                     str[k] = sep /\ \A j \in 1..(k - 1) : str[j] # sep
         IN <<SubSeq(str, 1, i - 1)>> \o Split(SubSeq(str, i + 1, Len(str)), sep)
    ELSE <<str>>

\* parts.join(sep)
RECURSIVE Join(_, _)
Join(parts, sep) ==
    IF parts = <<>> THEN <<>>
    ELSE IF Len(parts) = 1 THEN parts[1]
    ELSE parts[1] \o <<sep>> \o Join(Tail(parts), sep)

\* parts.slice(0, 4)
Slice4(parts) == SubSeq(parts, 1, IF Len(parts) < 4 THEN Len(parts) ELSE 4)

\* parts[i] of a JavaScript array, 0-based index i; undefined reads as <<>>
\* (parseInt(undefined) is NaN, as is parseInt(""))
At(parts, i) == IF i + 1 <= Len(parts) THEN parts[i + 1] ELSE <<>>

(***************************************************************************)
(* URLs and paths: sequences of tokens.  "ftp://" is one token, so is "/", *)
(* ":" and "@", and so is each name.                                       *)
(***************************************************************************)
DefaultPort == 21

\* str.startsWith("ftp://")
IsFtp(str) == str # <<>> /\ Head(str) = "ftp://"

RECURSIVE DropSlashes(_)
DropSlashes(toks) ==
    IF toks # <<>> /\ Head(toks) = "/" THEN DropSlashes(Tail(toks)) ELSE toks

\* the index of the first token tok of toks, or Len(toks) + 1
IndexOf(toks, tok) ==
    IF \E i \in 1..Len(toks) : toks[i] = tok
    THEN CHOOSE i \in 1..Len(toks) : toks[i] = tok /\ \A j \in 1..(i - 1) : toks[j] # tok
    ELSE Len(toks) + 1

\* parseURL(ftpUrl) for an ftp URL: new url.URL skips the slashes that follow
\* the scheme, reads the authority up to the next "/", and the rest is the
\* pathname ("/" when nothing is left)
parseURL(ftpUrl) ==
    LET rest == DropSlashes(Tail(ftpUrl))
        cut == IndexOf(rest, "/")
        auth == SubSeq(rest, 1, cut - 1)
        pathname == SubSeq(rest, cut, Len(rest))
        at == IndexOf(auth, "@")
        hasInfo == at <= Len(auth)
        info == IF hasInfo THEN SubSeq(auth, 1, at - 1) ELSE <<>>
        hostport == IF hasInfo THEN SubSeq(auth, at + 1, Len(auth)) ELSE auth
        colon == IndexOf(info, ":")
        username == SubSeq(info, 1, colon - 1)
        password == SubSeq(info, colon + 1, Len(info))
        pcolon == IndexOf(hostport, ":")
    IN [host |-> SubSeq(hostport, 1, pcolon - 1),
        port |-> IF pcolon < Len(hostport) THEN SubSeq(hostport, pcolon + 1, Len(hostport))
                 ELSE <<DefaultPort>>,
        user |-> IF username = <<>> THEN <<"anonymous">> ELSE username,
        password |-> password,
        path |-> IF pathname = <<>> THEN <<"/">> ELSE pathname]

(***************************************************************************)
(* Control replies.  A line is its code, whether its 4th character is "-", *)
(* and its message; a chunk (the argument of one "data" event) is a        *)
(* sequence of lines, and data.toString() is the text of its lines.        *)
(***************************************************************************)
Line(code, cont, msg) == [code |-> code, cont |-> cont, msg |-> msg]

LineText(l) == Dec(l.code) \o <<IF l.cont THEN "-" ELSE " ">> \o l.msg \o <<"\n">>

RECURSIVE ChunkText(_)
ChunkText(chunk) ==
    IF chunk = <<>> THEN <<>> ELSE LineText(Head(chunk)) \o ChunkText(Tail(chunk))

\* the codes of the closing lines of a chunk
RECURSIVE ClosingCodes(_)
ClosingCodes(chunk) ==
    IF chunk = <<>> THEN <<>>
    ELSE (IF Head(chunk).cont THEN <<>> ELSE <<Head(chunk).code>>)
         \o ClosingCodes(Tail(chunk))

\* response.match(/\(([^)]+)\)/): the first "(" that is followed by one or
\* more characters other than ")" and then a ")"; <<i, j>> are the places
\* of the two parentheses, <<0, 0>> when there is no match
MatchParens(text) ==
    LET Ok(i, j) == /\ text[i] = "("
                    /\ text[j] = ")"
                    /\ j > i + 1
                    /\ \A k \in (i + 1)..(j - 1) : text[k] # ")"
        starts == {i \in 1..Len(text) : \E j \in 1..Len(text) : Ok(i, j)}
    IN IF starts = {} THEN <<0, 0>>
       ELSE LET i == CHOOSE a \in starts : \A b \in starts : a <= b
            IN <<i, CHOOSE j \in 1..Len(text) : Ok(i, j)>>

\* the body of openDataConnection's reply listener: "error" for a reply that
\* does not start with 227, "throw" when match() returns null (null[1] is a
\* TypeError), else the ip and port handed to the callback
parsePasv(response) ==
    IF ~StartsWith(response, <<"2", "2", "7">>) THEN [kind |-> "error"]
    ELSE LET m == MatchParens(response)
         IN IF m = <<0, 0>> THEN [kind |-> "throw"]
            ELSE LET ipAndPort == Split(SubSeq(response, m[1] + 1, m[2] - 1), ",")
                 IN [kind |-> "ok",
                     ip |-> Join(Slice4(ipAndPort), "."),
                     port |-> Plus(ShiftLeft8(ParseInt(At(ipAndPort, 4))),
                                   ParseInt(At(ipAndPort, 5)))]

\* the message of a well-formed 227 reply for the address <<a, b, c, d, p1, p2>>
PasvMsg(t) ==
    <<"x", " ", "(">> \o Join([i \in 1..Len(t) |-> Dec(t[i])], ",") \o <<")">>

(***************************************************************************)
(* The environment: one FTP server, one remote file, one local file.       *)
(***************************************************************************)
ServerHost == <<"host">>

\* the address the server listens on for data connections: (a,b,c,d,p1,p2)
SrvAddr == <<10, 0, 0, 1, 4, 1>>

RemoteUrl == <<"ftp://", "u", ":", "p", "@", "host", "/", "a.txt">>
OtherUrl == <<"ftp://", "u", ":", "p", "@", "host", "/", "b.txt">>
LocalPath == <<"a.txt">>
OtherPath == <<"b.txt">>

Absent == [exists |-> FALSE, data |-> <<>>]
File(data) == [exists |-> TRUE, data |-> data]

\* the contents a file or a listing may have: <<>>, <<1>>, <<1, 2>>, ...
Contents == {[i \in 1..n |-> i] : n \in 0..MaxChunks}

(***************************************************************************)
(* State.                                                                  *)
(*   cmd      the command line: name and arguments                         *)
(*   sess     the control sessions: "op" is the session of the command,    *)
(*            "del" the session handleMvCommand opens through              *)
(*            handleRmCommand to delete the remote source                  *)
(*   fs       the local file and the remote file the command names         *)
(*   log      what the program has reported (console.log / console.error)  *)
(*   crashed  an exception was thrown out of a listener: node has exited   *)
(***************************************************************************)
VARIABLES cmd, sess, fs, log, crashed

vars == <<cmd, sess, fs, log, crashed>>

SessionIds == {"op", "del"}

\* a session that connectToFtpServer has not been called for
NoSession ==
    [ctrl |-> "none",        \* control socket: none, connecting, open, ended, closed
     url |-> <<>>,           \* the ftpUrl of connectToFtpServer
     op |-> "none",          \* the function that called connectToFtpServer
     cb |-> "none",          \* the callback that function was given
     responseCount |-> 0,    \* loginToFtp's counter (only "=== 1" is read: kept up to 2)
     once |-> <<>>,          \* the client.once("data") listeners, in order
     errPending |-> FALSE,   \* a write after end() has an "error" event due
     sent |-> <<>>,          \* every command written to the control socket
     inflight |-> <<>>,      \* reply lines on their way to the client
     rd |-> <<>>,            \* codes of the closing lines the client has consumed
     conts |-> 0,            \* times the caller's continuation was called with a client
     srvPos |-> 0,           \* commands the server has answered
     srvOpen |-> TRUE,       \* the server still serves this control connection
     multi |-> 0,            \* multi-line replies the server has sent
     srvData |-> "none",     \* server side of the data connection
     listen |-> <<>>,        \* the address (a,b,c,d,p1,p2) the server listens on
     told |-> <<>>,          \* the message of the server's 227 reply
     d |-> "none",           \* dataClient: none, connecting, open, closed
     dcount |-> 0,           \* data sockets created
     daddr |-> [ip |-> <<>>, port |-> NaN],
     dEnded |-> FALSE,       \* dataClient.end() was called
     dIn |-> <<>>,           \* chunks on their way to the client
     dFin |-> FALSE,         \* the server has closed the data connection
     dOut |-> <<>>,          \* chunks the client has written to the data connection
     pipe |-> "none",        \* the upload's read stream: none, piping, finished
     pos |-> 0,              \* chunks of the source the pipe has read
     fileStream |-> "none",  \* the download's write stream: none, open, ended
     listingData |-> <<>>,   \* handleLsCommand's accumulator
     listed |-> <<>>]        \* the listing as it was reported

World == [sess |-> sess, fs |-> fs, log |-> log, crashed |-> crashed]

Set(w, s, f, v) == [w EXCEPT !.sess[s][f] = v]

Report(w, tag) == [w EXCEPT !.log = @ \cup {tag}]

\* an exception leaves the listener and ends the process
Throw(w, tag) == [w EXCEPT !.crashed = TRUE, !.log = @ \cup {tag}]

\* client.write(text): after end() the write fails and an "error" event follows
Write(w, s, verb, arg) ==
    IF w.sess[s].ctrl = "open"
    THEN Set(w, s, "sent", Append(w.sess[s].sent, [verb |-> verb, arg |-> arg]))
    ELSE IF w.sess[s].ctrl = "ended" THEN Set(w, s, "errPending", TRUE)
    ELSE w

\* client.end()
ClientEnd(w, s) ==
    IF w.sess[s].ctrl = "open" THEN Set(w, s, "ctrl", "ended") ELSE w

\* dataClient.end()
DataClientEnd(w, s) == Set(w, s, "dEnded", TRUE)

\* connectToFtpServer(ftpUrl, callback), called by op: a new socket, connecting
connectToFtpServer(w, s, ftpUrl, op, cb) ==
    [w EXCEPT !.sess[s] = [NoSession EXCEPT !.ctrl = "connecting", !.url = ftpUrl,
                                            !.op = op, !.cb = cb]]

(***************************************************************************)
(* The callbacks and listeners, innermost first.  Each takes the world w   *)
(* (sess, fs, log, crashed) and gives the world after it has run.          *)
(***************************************************************************)
Code(n) == Dec(n)

\* whether the local path names an existing file (LocalPath is the one file)
localExists(w, path) == path = LocalPath /\ w.fs.local.exists

Push(w, s, h) == Set(w, s, "once", Append(w.sess[s].once, h))

\* handleMvCommand's callback of handleRmCommand
mvDeleteCallback(w, isErr) ==
    IF isErr THEN Report(w, "mv: failed to delete the remote source")
    ELSE Report(w, "mv: remote source deleted")

\* handleMvCommand's callback of downloadFileFromFtp(source, destination, cb):
\* cb is called with the remote URL as its only argument
mvDownloadCallback(w, downloadError) ==
    IF Truthy(downloadError) THEN Report(w, "mv: failed to download")
    ELSE connectToFtpServer(Report(w, "mv: downloaded"), "del",
                            <<"ftp://">> \o parseURL(cmd.source).path, "rm", "mvDelete")

\* handleMvCommand's callback of uploadFileToFtp(source, destination, cb):
\* cb is called with the local path as its only argument; fs.unlink(source)
mvUploadCallback(w, uploadError) ==
    IF Truthy(uploadError) THEN Report(w, "mv: failed to upload")
    ELSE LET w1 == Report(w, "mv: uploaded")
         IN IF localExists(w1, cmd.source)
            THEN Report([w1 EXCEPT !.fs.local = Absent], "mv: local source deleted")
            ELSE Report(w1, "mv: failed to delete the local source")

\* the callbacks of mv called by every transfer, without an error
transferCallbackMut(w, s, arg) ==
    IF w.sess[s].op = "download" THEN mvDownloadCallback(w, <<>>)
    ELSE mvUploadCallback(w, <<>>)

\* "if (callback) { callback(arg) }" of the two transfer functions
transferCallback(w, s, arg) ==
    CASE w.sess[s].cb = "mvDownload" -> mvDownloadCallback(w, arg)
      [] w.sess[s].cb = "mvUpload" -> mvUploadCallback(w, arg)
      [] OTHER -> w

\* the triggering command of the session's operation
Trigger(op) == CASE op = "ls" -> "LIST" [] op = "download" -> "RETR" [] OTHER -> "STOR"

validPort(port) == ~port.nan /\ port.v >= 0 /\ port.v <= 65535

\* the callback of openDataConnection in handleLsCommand, downloadFileFromFtp
\* and uploadFileToFtp, called with {ip, port}: new net.Socket(), connect
\* (which throws on a port that is no port), the listeners, the write stream
dataConnectionMut(w, s, ip, port) ==
    LET op == w.sess[s].op
        w1 == [w EXCEPT !.sess[s].d = "connecting",
                        !.sess[s].dcount = @ + 1,
                        !.sess[s].daddr = [ip |-> ip, port |-> port]]
        w2 == Write(w1, s, Trigger(op), parseURL(w.sess[s].url).path)
    IN IF ~validPort(port) THEN Throw(w, "RangeError: bad port")
       ELSE CASE op = "ls" -> Set(w2, s, "listingData", <<>>)
              [] op = "download" ->
                   Push([w2 EXCEPT !.sess[s].fileStream = "open",
                                   !.fs.local = File(<<>>)], s, "retr")
              [] OTHER -> Push(w2, s, "stor")

dataConnection(w, s, ip, port) ==
    LET op == w.sess[s].op
        w1 == [w EXCEPT !.sess[s].d = "connecting",
                        !.sess[s].dcount = @ + 1,
                        !.sess[s].daddr = [ip |-> ip, port |-> port]]
    IN IF ~validPort(port) THEN Throw(w, "RangeError: bad port")
       ELSE CASE op = "ls" -> Set(w1, s, "listingData", <<>>)
              [] op = "download" ->
                   Push([w1 EXCEPT !.sess[s].fileStream = "open",
                                   !.fs.local = File(<<>>)], s, "retr")
              [] OTHER -> Push(w1, s, "stor")

\* "function (error, { ip, port })", the callback the three transfer
\* functions give openDataConnection: binding { ip, port } to a missing
\* second argument throws before the body runs; with an error the body
\* reports it (and, in the two file transfers, ends the control connection)
pasvCallback(w, s, isErr, hasArg, ip, port) ==
    IF ~hasArg THEN Throw(w, "TypeError: cannot destructure undefined")
    ELSE IF isErr
    THEN LET w1 == Report(w, "failed to open data connection")
         IN IF w.sess[s].op = "ls" THEN w1 ELSE ClientEnd(w1, s)
    ELSE dataConnection(w, s, ip, port)

\* openDataConnection's client.once("data"): a reply that starts with 227
\* calls the callback with (null, {ip, port}), any other with an error only
onPasvReply(w, s, response) ==
    LET r == parsePasv(response)
    IN CASE r.kind = "ok" -> pasvCallback(w, s, FALSE, TRUE, r.ip, r.port)
         [] r.kind = "throw" -> Throw(w, "TypeError: match is null")
         [] OTHER -> pasvCallback(w, s, TRUE, FALSE, <<>>, NaN)

\* downloadFileFromFtp's client.once("data")
onRetrReply(w, s, response) ==
    IF ~StartsWith(response, Code(150))
    THEN DataClientEnd(Set(Report(w, "failed to start file transfer"),
                           s, "fileStream", "ended"), s)
    ELSE w

\* uploadFileToFtp's client.once("data"): fs.createReadStream(localPath)
\* .pipe(dataClient); a source that cannot be opened is an unhandled "error"
onStorReply(w, s, response) ==
    IF StartsWith(response, Code(150))
    THEN IF localExists(w, cmd.source)
         THEN [w EXCEPT !.sess[s].pipe = "piping", !.sess[s].pos = 0]
         ELSE Throw(w, "Error: ENOENT")
    ELSE DataClientEnd(Report(w, "failed to start file transfer"), s)

\* handleMkdirCommand's and handleRmdirCommand's client.once("data")
onMkdReply(w, s, response) == ClientEnd(Report(w, "MKD response"), s)

onRmdReply(w, s, response) == ClientEnd(Report(w, "RMD response"), s)

\* handleRmCommand's client.once("data")
onDeleReply(w, s, response) ==
    LET isFn == w.sess[s].cb # "none"
    IN IF StartsWith(response, Code(250))
       THEN ClientEnd(IF isFn THEN mvDeleteCallback(Report(w, "file deleted"), FALSE)
                      ELSE Report(w, "file deleted"), s)
       ELSE ClientEnd(IF isFn THEN mvDeleteCallback(Report(w, "failed to delete file"), TRUE)
                      ELSE Report(w, "failed to delete file"), s)

\* openDataConnection(client, callback)
openDataConnection(w, s) == Push(Write(w, s, "PASV", <<>>), s, "pasv")

\* the callback each command gives connectToFtpServer
continuation(w, s, isErr) ==
    LET op == w.sess[s].op
        path == parseURL(w.sess[s].url).path
        w1 == IF isErr THEN w ELSE Set(w, s, "conts", w.sess[s].conts + 1)
    IN CASE op = "mkdir" ->
              IF isErr THEN Report(w1, "failed to connect or log in")
              ELSE Push(Write(w1, s, "MKD", path), s, "mkd")
         [] op = "rmdir" ->
              IF isErr THEN Report(w1, "failed to connect or log in")
              ELSE Push(Write(w1, s, "RMD", path), s, "rmd")
         [] op = "rm" ->
              IF isErr
              THEN IF w.sess[s].cb = "none"
                   THEN Throw(Report(w1, "failed to connect or log in for deletion"),
                              "TypeError: callback is not a function")
                   ELSE mvDeleteCallback(
                            Report(w1, "failed to connect or log in for deletion"), TRUE)
              ELSE Push(Write(w1, s, "DELE", path), s, "dele")
         [] OTHER ->
              IF isErr THEN Report(w1, "failed to connect or log in")
              ELSE openDataConnection(w1, s)

\* connectToFtpServer's callback of loginToFtp
loginCallback(w, s, isErr) ==
    IF isErr THEN continuation(Report(w, "FTP login failed"), s, TRUE)
    ELSE continuation(Report(w, "FTP login successful"), s, FALSE)

\* loginToFtp's client.on("data"), which stays registered for the whole session
loginOnData(w, s, response) ==
    LET n == IF w.sess[s].responseCount >= 2 THEN 2 ELSE w.sess[s].responseCount + 1
        w1 == Set(w, s, "responseCount", n)
        u == parseURL(w.sess[s].url)
    IN IF n = 1 THEN Write(w1, s, "USER", u.user)
       ELSE IF StartsWith(response, Code(331)) THEN Write(w1, s, "PASS", u.password)
       ELSE IF StartsWith(response, Code(230)) THEN loginCallback(w1, s, FALSE)
       ELSE IF StartsWith(response, Code(530)) THEN loginCallback(w1, s, TRUE)
       ELSE w1

\* one listener of the control socket's "data" event
listener(w, s, h, response) ==
    CASE h = "login" -> loginOnData(w, s, response)
      [] h = "pasv" -> onPasvReply(w, s, response)
      [] h = "retr" -> onRetrReply(w, s, response)
      [] h = "stor" -> onStorReply(w, s, response)
      [] h = "mkd" -> onMkdReply(w, s, response)
      [] h = "rmd" -> onRmdReply(w, s, response)
      [] h = "dele" -> onDeleReply(w, s, response)

\* emit("data", chunk): the listeners registered when the event is emitted,
\* in the order of their registration, until one throws
RECURSIVE emit(_, _, _, _)
emit(w, s, hs, response) ==
    IF hs = <<>> \/ w.crashed THEN w
    ELSE emit(listener(w, s, Head(hs), response), s, Tail(hs), response)

\* the two "error" listeners of the control socket: connectToFtpServer's
\* (registered first) and, once connected, loginToFtp's
emitError(w, s) ==
    LET w1 == continuation(Report(w, "FTP connection error"), s, TRUE)
    IN IF w.sess[s].ctrl = "connecting" \/ w1.crashed THEN w1
       ELSE loginCallback(Report(w1, "connection error"), s, TRUE)

(***************************************************************************)
(* The command line: handleLsCommand ... handleMvCommand as the switch     *)
(* at the end of the file calls them.                                      *)
(***************************************************************************)
\* the test of the destination left out of the second branch
handleCpCommandMut(w, source, destination) ==
    IF ~IsFtp(source) /\ IsFtp(destination)
    THEN connectToFtpServer(w, "op", destination, "upload", "none")
    ELSE IF IsFtp(source)
    THEN connectToFtpServer(w, "op", source, "download", "none")
    ELSE Report(w, "cp: unsupported")

handleCpCommand(w, source, destination) ==
    IF ~IsFtp(source) /\ IsFtp(destination)
    THEN connectToFtpServer(w, "op", destination, "upload", "none")
    ELSE IF IsFtp(source) /\ ~IsFtp(destination)
    THEN connectToFtpServer(w, "op", source, "download", "none")
    ELSE Report(w, "cp: unsupported")

handleMvCommand(w, source, destination) ==
    IF IsFtp(source) /\ ~IsFtp(destination)
    THEN connectToFtpServer(w, "op", source, "download", "mvDownload")
    ELSE IF ~IsFtp(source) /\ IsFtp(destination)
    THEN connectToFtpServer(w, "op", destination, "upload", "mvUpload")
    ELSE Report(w, "mv: unsupported")

main(w, c) ==
    CASE c.name \in {"ls", "mkdir", "rmdir", "rm"} ->
           connectToFtpServer(w, "op", c.source, c.name, "none")
      [] c.name = "cp" -> handleCpCommand(w, c.source, c.destination)
      [] c.name = "mv" -> handleMvCommand(w, c.source, c.destination)

Command(name, source, destination) ==
    [name |-> name, source |-> source, destination |-> destination]

Commands ==
    {Command(n, RemoteUrl, <<>>) : n \in {"ls", "mkdir", "rmdir", "rm"}}
    \cup {Command(n, a[1], a[2]) :
            n \in {"cp", "mv"},
            a \in {<<LocalPath, RemoteUrl>>, <<RemoteUrl, LocalPath>>,
                   <<LocalPath, OtherPath>>, <<RemoteUrl, OtherUrl>>}}
    \cup {Command("mv", <<>>, RemoteUrl)}

\* the files before the command runs
InitialFs(c) ==
    IF c.name \in {"cp", "mv"} /\ c.source = LocalPath
    THEN {[local |-> l, remote |-> Absent] : l \in {Absent} \cup {File(d) : d \in Contents}}
    ELSE IF c.name \in {"cp", "mv"} /\ c.source = RemoteUrl
    THEN {[local |-> Absent, remote |-> r] : r \in {Absent} \cup {File(d) : d \in Contents}}
    ELSE IF c.name = "ls"
    THEN {[local |-> Absent, remote |-> File(d)] : d \in Contents}
    ELSE {[local |-> Absent, remote |-> File(<<1>>)]}

Init ==
    \E c \in Commands : \E f \in InitialFs(c) :
        LET w == main([sess |-> [s \in SessionIds |-> NoSession], fs |-> f,
                       log |-> {}, crashed |-> FALSE], c)
        IN /\ cmd = c
           /\ sess = w.sess
           /\ fs = w.fs
           /\ log = w.log
           /\ crashed = w.crashed

Becomes(w) ==
    /\ sess' = w.sess
    /\ fs' = w.fs
    /\ log' = w.log
    /\ crashed' = w.crashed
    /\ UNCHANGED cmd

\* a failed write has its "error" event due before any other event
Pending == \E s \in SessionIds : sess[s].errPending

(***************************************************************************)
(* The server.                                                             *)
(***************************************************************************)
\* an n-line reply: n - 1 continuation lines, then the closing line
ReplyLines(code, n, msg) ==
    [i \in 1..n |-> Line(code, i < n, IF i = n THEN msg ELSE <<>>)]

LineCounts(ss) == IF ss.multi < MaxMulti THEN 1..MaxLines ELSE {1}

Used(ss, n) == IF n > 1 THEN ss.multi + 1 ELSE ss.multi

GreetingCodes == {220, 421}

\* the endpoint the server listens on when it tells (a,b,c,d,p1,p2)
Endpoint(t) ==
    [ip |-> Dec(t[1]) \o <<".">> \o Dec(t[2]) \o <<".">> \o Dec(t[3]) \o <<".">> \o Dec(t[4]),
     port |-> Num(t[5] * 256 + t[6])]

\* the replies to PASV: well-formed, without parentheses, with five
\* numbers, and a refusal
PasvReplies ==
    {[code |-> 227, msg |-> PasvMsg(SrvAddr)],
     [code |-> 227, msg |-> <<"x", " ">> \o Join([i \in 1..6 |-> Dec(SrvAddr[i])], ",")],
     [code |-> 227, msg |-> PasvMsg(SubSeq(SrvAddr, 1, 5))],
     [code |-> 500, msg |-> <<>>]}

\* the replies the server may give to command c
Replies(w, s, c) ==
    LET plain(codes) == {[code |-> k, msg |-> <<>>] : k \in codes}
        here == c.arg = parseURL(RemoteUrl).path
    IN CASE c.verb = "USER" -> plain({331, 230, 530, 332})
         [] c.verb = "PASS" -> plain({230, 530, 332})
         [] c.verb = "PASV" -> PasvReplies
         [] c.verb \in {"LIST", "RETR", "STOR"} /\ w.sess[s].srvData # "accepted" ->
              plain({425})
         [] c.verb = "LIST" -> plain({150, 125, 550})
         [] c.verb = "RETR" ->
              IF here /\ w.fs.remote.exists THEN plain({150, 125, 550}) ELSE plain({550})
         [] c.verb = "STOR" -> plain({150, 125, 550})
         [] c.verb = "MKD" -> plain({257, 550})
         [] c.verb = "RMD" -> plain({250, 550})
         [] c.verb = "DELE" ->
              IF here /\ w.fs.remote.exists THEN plain({250, 550}) ELSE plain({550})

Positive(code) == code \in {150, 125}

FinalCodes == {226, 426}

\* what answering command c with reply r (n lines) does; fin is the final
\* reply of a transfer the server sends after the data
answer(w, s, c, r, n, fin) ==
    LET ss == w.sess[s]
        lines == ReplyLines(r.code, n, r.msg)
        w1 == [w EXCEPT !.sess[s].srvPos = @ + 1,
                        !.sess[s].multi = Used(ss, n),
                        !.sess[s].inflight = @ \o lines]
    IN CASE c.verb = "PASV" /\ r.code = 227 ->
              [w1 EXCEPT !.sess[s].srvData = "listening", !.sess[s].listen = SrvAddr,
                         !.sess[s].told = r.msg]
         [] c.verb \in {"LIST", "RETR"} /\ ss.srvData = "accepted" ->
              IF Positive(r.code)
              THEN [w1 EXCEPT !.sess[s].srvData = "done",
                              !.sess[s].dIn = w.fs.remote.data,
                              !.sess[s].dFin = TRUE,
                              !.sess[s].inflight = @ \o ReplyLines(fin, 1, <<>>)]
              ELSE [w1 EXCEPT !.sess[s].srvData = "done", !.sess[s].dFin = TRUE]
         [] c.verb = "STOR" /\ ss.srvData = "accepted" ->
              IF Positive(r.code) THEN Set(w1, s, "srvData", "receiving")
              ELSE [w1 EXCEPT !.sess[s].srvData = "done", !.sess[s].dFin = TRUE]
         [] c.verb = "DELE" /\ r.code = 250 -> [w1 EXCEPT !.fs.remote = Absent]
         [] OTHER -> w1

(***************************************************************************)
(* Actions: one per event of the event loop, and the server's steps.       *)
(***************************************************************************)
\* the control socket's "connect" event (loginToFtp registers its
\* listeners), and the server's greeting on its way
CtrlConnect(s) ==
    /\ ~crashed /\ ~Pending
    /\ sess[s].ctrl = "connecting"
    /\ parseURL(sess[s].url).host = ServerHost
    /\ \E code \in GreetingCodes, n \in LineCounts(sess[s]) :
         Becomes([World EXCEPT !.sess[s].ctrl = "open",
                               !.sess[s].inflight = ReplyLines(code, n, <<>>),
                               !.sess[s].multi = Used(sess[s], n),
                               !.sess[s].srvOpen = (code = 220)])

\* a "data" event of the control socket: the next k lines in one chunk
CtrlData(s) ==
    /\ ~crashed /\ ~Pending
    /\ sess[s].ctrl \in {"open", "ended"}
    /\ \E k \in 1..Len(sess[s].inflight) :
         LET chunk == SubSeq(sess[s].inflight, 1, k)
             w == [World EXCEPT
                      !.sess[s].inflight = SubSeq(@, k + 1, Len(@)),
                      !.sess[s].rd = @ \o ClosingCodes(chunk),
                      !.sess[s].once = <<>>]
         IN Becomes(emit(w, s, <<"login">> \o sess[s].once, ChunkText(chunk)))

\* an "error" event of the control socket (the connection fails or is
\* reset, or a write after end()); the socket is destroyed
CtrlError(s) ==
    /\ ~crashed
    /\ sess[s].ctrl \in {"connecting", "open", "ended"}
    /\ sess[s].errPending \/ ~Pending
    /\ LET w == emitError(World, s)
       IN Becomes([w EXCEPT !.sess[s].ctrl = "closed",
                            !.sess[s].errPending = FALSE,
                            !.sess[s].once = <<>>])

\* the server closes the control connection (after a 421 greeting, or once
\* the client has ended it and every command is answered); no listener
CtrlClose(s) ==
    /\ ~crashed /\ ~Pending
    /\ sess[s].ctrl \in {"open", "ended"}
    /\ sess[s].inflight = <<>>
    /\ \/ ~sess[s].srvOpen
       \/ /\ sess[s].ctrl = "ended"
          /\ sess[s].srvPos = Len(sess[s].sent)
          /\ sess[s].srvData # "receiving"
    /\ Becomes([World EXCEPT !.sess[s].ctrl = "closed", !.sess[s].once = <<>>])

\* the server closes the control connection instead of answering the
\* command that waits for its reply (or instead of the final reply of a
\* store): the client's socket has no "end" or "close" listener
CtrlDrop(s) ==
    /\ ~crashed /\ ~Pending
    /\ sess[s].ctrl \in {"open", "ended"}
    /\ sess[s].inflight = <<>>
    /\ sess[s].srvOpen
    /\ sess[s].srvPos < Len(sess[s].sent) \/ sess[s].srvData = "receiving"
    /\ Becomes([World EXCEPT !.sess[s].ctrl = "closed", !.sess[s].once = <<>>,
                             !.sess[s].srvOpen = FALSE])

\* the server answers the next command
SrvReply(s) ==
    /\ ~crashed
    /\ sess[s].ctrl \in {"open", "ended"}
    /\ sess[s].srvOpen
    /\ sess[s].srvPos < Len(sess[s].sent)
    /\ LET c == sess[s].sent[sess[s].srvPos + 1]
       IN \E r \in Replies(World, s, c), n \in LineCounts(sess[s]) :
            \E fin \in IF c.verb \in {"LIST", "RETR"} /\ Positive(r.code)
                       THEN FinalCodes ELSE {226} :
               Becomes(answer(World, s, c, r, n, fin))

\* the server has read the end of the uploaded data: it stores the file
\* and sends the final reply
SrvStorDone(s) ==
    /\ ~crashed
    /\ sess[s].srvData = "receiving"
    /\ sess[s].dEnded
    /\ \E fin \in FinalCodes :
         Becomes([World EXCEPT
                     !.sess[s].srvData = "done",
                     !.sess[s].dFin = TRUE,
                     !.sess[s].inflight = @ \o ReplyLines(fin, 1, <<>>),
                     !.fs.remote = IF fin = 226 THEN File(sess[s].dOut) ELSE @])

\* dataClient's "connect" event: the triggering command is written
DataConnect(s) ==
    /\ ~crashed /\ ~Pending
    /\ sess[s].d = "connecting"
    /\ sess[s].srvData = "listening"
    /\ sess[s].daddr = Endpoint(sess[s].listen)
    /\ Becomes(Write([World EXCEPT !.sess[s].d = "open",
                                   !.sess[s].srvData = "accepted"],
                     s, Trigger(sess[s].op), parseURL(sess[s].url).path))

\* the chunk put in front of what was written before
DataChunkMut(s) ==
    /\ ~crashed /\ ~Pending
    /\ sess[s].d = "open"
    /\ sess[s].dIn # <<>>
    /\ LET chunk == Head(sess[s].dIn)
           w == Set(World, s, "dIn", Tail(sess[s].dIn))
       IN Becomes(CASE sess[s].op = "ls" ->
                         Set(w, s, "listingData", <<chunk>> \o sess[s].listingData)
                    [] sess[s].op = "download" ->
                         IF sess[s].fileStream = "open"
                         THEN [w EXCEPT !.fs.local.data = <<chunk>> \o @]
                         ELSE Throw(w, "Error: write after end")
                    [] OTHER -> w)

\* dataClient's "data" event
DataChunk(s) ==
    /\ ~crashed /\ ~Pending
    /\ sess[s].d = "open"
    /\ sess[s].dIn # <<>>
    /\ LET chunk == Head(sess[s].dIn)
           w == Set(World, s, "dIn", Tail(sess[s].dIn))
       IN Becomes(CASE sess[s].op = "ls" ->
                         Set(w, s, "listingData", Append(sess[s].listingData, chunk))
                    [] sess[s].op = "download" ->
                         IF sess[s].fileStream = "open"
                         THEN [w EXCEPT !.fs.local.data = Append(@, chunk)]
                         ELSE Throw(w, "Error: write after end")
                    [] OTHER -> w)

\* the listing reported is its first chunk only
DataEndMut(s) ==
    /\ ~crashed /\ ~Pending
    /\ sess[s].d = "open"
    /\ sess[s].dIn = <<>>
    /\ sess[s].dFin
    /\ LET w == Set(World, s, "d", "closed")
       IN Becomes(CASE sess[s].op = "ls" ->
                         ClientEnd(Set(Report(w, "directory listing"), s, "listed",
                                       IF sess[s].listingData = <<>> THEN <<>>
                                       ELSE <<Head(sess[s].listingData)>>), s)
                    [] sess[s].op = "download" ->
                         transferCallback(
                             ClientEnd(Set(Report(w, "file download completed"),
                                           s, "fileStream", "ended"), s),
                             s, sess[s].url)
                    [] OTHER -> w)

\* dataClient's "end" event
DataEnd(s) ==
    /\ ~crashed /\ ~Pending
    /\ sess[s].d = "open"
    /\ sess[s].dIn = <<>>
    /\ sess[s].dFin
    /\ LET w == Set(World, s, "d", "closed")
       IN Becomes(CASE sess[s].op = "ls" ->
                         ClientEnd(Set(Report(w, "directory listing"),
                                       s, "listed", sess[s].listingData), s)
                    [] sess[s].op = "download" ->
                         transferCallback(
                             ClientEnd(Set(Report(w, "file download completed"),
                                           s, "fileStream", "ended"), s),
                             s, sess[s].url)
                    [] OTHER -> w)

\* the pipe of the upload writes the next chunk of the source
PipeChunk(s) ==
    /\ ~crashed /\ ~Pending
    /\ sess[s].pipe = "piping"
    /\ sess[s].d = "open"
    /\ sess[s].pos < Len(fs.local.data)
    /\ Becomes(IF sess[s].dEnded THEN Throw(World, "Error: write after end")
               ELSE [World EXCEPT !.sess[s].pos = @ + 1,
                                  !.sess[s].dOut = Append(@, fs.local.data[sess[s].pos + 1])])

\* the source is exhausted: the pipe ends dataClient, whose "finish" event
\* follows
PipeFinish(s) ==
    /\ ~crashed /\ ~Pending
    /\ sess[s].pipe = "piping"
    /\ sess[s].d = "open"
    /\ sess[s].pos = Len(fs.local.data)
    /\ Becomes(transferCallback(
                   ClientEnd(Report(DataClientEnd(Set(World, s, "pipe", "finished"), s),
                                    "file upload completed"), s),
                   s, cmd.source))

Next ==
    \E s \in SessionIds :
        \/ CtrlConnect(s)
        \/ CtrlData(s)
        \/ CtrlError(s)
        \/ CtrlClose(s)
        \/ CtrlDrop(s)
        \/ SrvReply(s)
        \/ SrvStorDone(s)
        \/ DataConnect(s)
        \/ DataChunk(s)
        \/ DataEnd(s)
        \/ PipeChunk(s)
        \/ PipeFinish(s)

Spec == Init /\ [][Next]_vars

(***************************************************************************)
(* Store, then retrieve: "cp a.txt ftp://u:p@host/a.txt" and, when that    *)
(* process has exited, "cp ftp://u:p@host/a.txt a.txt".  A copy of the     *)
(* local file is kept aside (fs.kept) before the first command.            *)
(***************************************************************************)
StoreCommand == Command("cp", LocalPath, RemoteUrl)

RetrieveCommand == Command("cp", RemoteUrl, LocalPath)

RoundTripInit ==
    \E c \in Contents :
        LET w == main([sess |-> [s \in SessionIds |-> NoSession],
                       fs |-> [local |-> File(c), remote |-> Absent, kept |-> File(c)],
                       log |-> {}, crashed |-> FALSE], StoreCommand)
        IN /\ cmd = StoreCommand
           /\ sess = w.sess
           /\ fs = w.fs
           /\ log = w.log
           /\ crashed = w.crashed

\* the second command line, once the first process has exited
Retrieve ==
    /\ cmd = StoreCommand
    /\ ~crashed
    /\ \A s \in SessionIds :
          sess[s].ctrl \in {"none", "closed"} /\ sess[s].d \in {"none", "closed"}
    /\ LET w == main([sess |-> [s \in SessionIds |-> NoSession], fs |-> fs,
                      log |-> log, crashed |-> FALSE], RetrieveCommand)
       IN /\ cmd' = RetrieveCommand
          /\ sess' = w.sess
          /\ fs' = w.fs
          /\ log' = w.log
          /\ crashed' = w.crashed

RoundTripNext == Next \/ Retrieve

RoundTripSpec == RoundTripInit /\ [][RoundTripNext]_vars

(***************************************************************************)
(* The PASV exchange on its own: a logged-in session of ls, cp or mv that  *)
(* has written PASV, and a server that listens on (a,b,c,d,p1,p2) and has  *)
(* said so in a well-formed 227 reply.                                     *)
(***************************************************************************)
PasvValues == {0, 1, 4, 10, 255}

PasvTuples == {<<a, b, c, d, p1, p2>> : a \in {10, 255}, b \in {0, 255}, c \in {0, 1},
                                         d \in PasvValues, p1 \in PasvValues,
                                         p2 \in PasvValues}

PasvCommands ==
    {Command("ls", RemoteUrl, <<>>), Command("cp", RemoteUrl, LocalPath),
     Command("mv", LocalPath, RemoteUrl)}

PasvInit ==
    \E c \in PasvCommands, t \in PasvTuples :
        LET w == main([sess |-> [s \in SessionIds |-> NoSession],
                       fs |-> [local |-> IF c.source = LocalPath THEN File(<<1>>) ELSE Absent,
                               remote |-> File(<<1>>)],
                       log |-> {"FTP login successful"}, crashed |-> FALSE], c)
            u == parseURL(RemoteUrl)
        IN /\ cmd = c
           /\ sess = [w.sess EXCEPT
                        !["op"].ctrl = "open",
                        !["op"].responseCount = 2,
                        !["op"].sent = <<[verb |-> "USER", arg |-> u.user],
                                         [verb |-> "PASS", arg |-> u.password],
                                         [verb |-> "PASV", arg |-> <<>>]>>,
                        !["op"].rd = <<220, 331, 230>>,
                        !["op"].conts = 1,
                        !["op"].once = <<"pasv">>,
                        !["op"].srvPos = 3,
                        !["op"].srvData = "listening",
                        !["op"].listen = t,
                        !["op"].told = PasvMsg(t),
                        !["op"].inflight = ReplyLines(227, 1, PasvMsg(t))]
           /\ fs = w.fs
           /\ log = w.log
           /\ crashed = w.crashed

PasvNext == CtrlData("op") \/ DataConnect("op")

PasvSpec == PasvInit /\ [][PasvNext]_vars

(***************************************************************************)
(* Properties.                                                             *)
(***************************************************************************)
\* the client has consumed the closing line of a reply with this code
Read(s, code) == \E i \in 1..Len(sess[s].rd) : sess[s].rd[i] = code

CountRead(s, code) == Cardinality({i \in 1..Len(sess[s].rd) : sess[s].rd[i] = code})

Sent(s, verb) == \E i \in 1..Len(sess[s].sent) : sess[s].sent[i].verb = verb

CountSent(s, verb) ==
    Cardinality({i \in 1..Len(sess[s].sent) : sess[s].sent[i].verb = verb})

\* the command is over: every socket the client made is closed
Finished ==
    \A s \in SessionIds :
        sess[s].ctrl \in {"none", "closed"} /\ sess[s].d \in {"none", "closed"}

IsMv(op) == cmd.name = "mv" /\ sess["op"].op = op

\* a run of the command with no socket error, no exception and no
\* transfer the client gave up, at its end
CleanEnd ==
    /\ Finished
    /\ ~crashed
    /\ "FTP connection error" \notin log
    /\ "failed to start file transfer" \notin log

\* fs.unlink(source) was called
UnlinkCalled ==
    \/ "mv: local source deleted" \in log
    \/ "mv: failed to delete the local source" \in log

\* handleRmCommand was called for the remote source, or a DELE was written
DeleteStarted == sess["del"].ctrl # "none" \/ \E s \in SessionIds : Sent(s, "DELE")

CompletionReported ==
    \/ "file download completed" \in log
    \/ "file upload completed" \in log
    \/ "directory listing" \in log

C2_LocalDeletedIffStored ==
    (IsMv("upload") /\ CleanEnd)
        => (("mv: local source deleted" \in log) <=> Read("op", 226))

\* C3: mv remote -> local: when all is over (here: after a run without
\* socket errors), a retrieve completed by 226 has been followed by a fresh session to the source's host with the
\* source's credentials on which DELE <source path> was written, and there
\* is no such DELE without a completed retrieve.
C3_RemoteDeletedIffRetrieved ==
    (IsMv("download") /\ CleanEnd)
        => (Read("op", 226)
              <=> /\ sess["del"].ctrl # "none"
                  /\ parseURL(sess["del"].url).host = parseURL(cmd.source).host
                  /\ parseURL(sess["del"].url).user = parseURL(cmd.source).user
                  /\ parseURL(sess["del"].url).password = parseURL(cmd.source).password
                  /\ \E i \in 1..Len(sess["del"].sent) :
                        sess["del"].sent[i] =
                            [verb |-> "DELE", arg |-> parseURL(cmd.source).path])

C5_TriggerAfterDataConnect ==
    \A s \in SessionIds :
        (Sent(s, "LIST") \/ Sent(s, "RETR") \/ Sent(s, "STOR"))
            => sess[s].d \in {"open", "closed"}

\* C5's case: the triggering command has been written, on a connected
\* data socket
C5_Witness ==
    /\ Sent("op", "RETR")
    /\ sess["op"].d = "open"
    /\ sess["op"].srvPos < Len(sess["op"].sent)

\* C6: list, retrieve and store report completion only after a final 226
\* has been read from the control connection.
C6_CompletionOnlyAfter226 ==
    CompletionReported => Read("op", 226)

\* C7: a preliminary reply 150 or 125 lets the transfer proceed; after any
\* other preliminary reply the data connection is ended by the client, the
\* failure is reported and completion is never reported.
C7_PreliminaryReply ==
    sess["op"].op \in {"ls", "download", "upload"}
        => /\ Read("op", 550)
                => /\ ~CompletionReported
                   /\ sess["op"].dEnded
                   /\ "failed to start file transfer" \in log
           /\ (Read("op", 125) /\ ~Read("op", 550))
                => "failed to start file transfer" \notin log

\* C8: only the closing line of a reply decides: USER is written for a
\* closed greeting, PASS once per closed 331 reply, the caller continues
\* once per closed 230 reply, a data socket is made for a closed 227 reply
\* and a deletion is reported for a closed 250 reply.
C8_ClosingLineDecides ==
    \A s \in SessionIds :
        /\ Sent(s, "USER") => sess[s].rd # <<>>
        /\ CountSent(s, "PASS") <= CountRead(s, 331)
        /\ sess[s].conts <= CountRead(s, 230)
        /\ sess[s].dcount > 0 => Read(s, 227)
        /\ (sess[s].op = "rm" /\ "file deleted" \in log) => Read(s, 250)

\* C9: at most one command is outstanding on a control connection: each
\* command is written after the closing line of the reply to the one
\* before it (the greeting, for USER) has been consumed; USER and PASS are
\* written at most once.
C9_OneOutstandingCommand ==
    \A s \in SessionIds :
        /\ Len(sess[s].sent) <= Len(sess[s].rd)
        /\ CountSent(s, "USER") <= 1
        /\ CountSent(s, "PASS") <= 1

\* C10: a 227 reply whose message has (a,b,c,d,p1,p2), six integers in
\* 0..255, once read, has had one data socket made for, and connected to,
\* the ip "a.b.c.d" and the port p1*256 + p2.
C10_PasvEndpoint ==
    \A s \in SessionIds :
        LET t == sess[s].listen
            ok == /\ sess[s].daddr.ip = Join(<<Dec(t[1]), Dec(t[2]), Dec(t[3]), Dec(t[4])>>, ".")
                  /\ sess[s].daddr.port = Num(t[5] * 256 + t[6])
        IN /\ sess[s].dcount > 0 => ok
           /\ (Read(s, 227) /\ sess[s].told = PasvMsg(t)) => (sess[s].dcount = 1 /\ ok)

\* the reply to PASV has been read and it was not a 227 with six integers
\* in parentheses
BadPasvRead(s) ==
    /\ Sent(s, "PASV")
    /\ \/ Read(s, 500)
       \/ Read(s, 227) /\ sess[s].told # PasvMsg(sess[s].listen)

TriggerSent(s) == Sent(s, "LIST") \/ Sent(s, "RETR") \/ Sent(s, "STOR")

\* C11: after a reply to PASV that is not 227, or is 227 without six
\* integers in parentheses, the failure to open the data connection is
\* reported (the process does not die of an exception), no data socket is
\* made and no LIST, RETR or STOR is written.
C11_PasvFailureReported ==
    \A s \in SessionIds :
        BadPasvRead(s) =>
            /\ ~crashed
            /\ "failed to open data connection" \in log
            /\ sess[s].dcount = 0
            /\ ~TriggerSent(s)

\* cp or mv with both sides local or both sides remote
SameSide == cmd.name \in {"cp", "mv"} /\ (IsFtp(cmd.source) <=> IsFtp(cmd.destination))

\* C12: cp and mv with both sides local or both sides remote report that
\* the operation is not supported, make no socket, write no command and
\* leave the files as they were.
C12_SameSideRefused ==
    SameSide =>
        /\ (IF cmd.name = "cp" THEN "cp: unsupported" ELSE "mv: unsupported") \in log
        /\ \A s \in SessionIds : sess[s] = NoSession
        /\ fs \in InitialFs(cmd)
        /\ ~crashed

\* C12's case: cp between two remote URLs, refused
C12_Witness ==
    /\ cmd = Command("cp", RemoteUrl, OtherUrl)
    /\ "cp: unsupported" \in log

\* C13: a 331 is answered with PASS, a 230 makes the login succeed, and a
\* 530 or any other reply to USER or PASS (here 332) makes it fail with a
\* report to the caller: once such a reply has been read the login is over.
C13_LoginTerminates ==
    \A s \in SessionIds :
        /\ (Read(s, 331) /\ ~crashed) => Sent(s, "PASS")
        /\ Read(s, 230) => sess[s].conts > 0
        /\ (Read(s, 530) \/ Read(s, 332)) => "FTP login failed" \in log

\* C14: USER is written only after a greeting with code 220; a greeting
\* with another code (here 421) is reported as a failure and USER is not
\* written.
C14_GreetingChecked ==
    \A s \in SessionIds :
        (sess[s].rd # <<>> /\ sess[s].rd[1] # 220) =>
            /\ ~Sent(s, "USER")
            /\ "failed to connect or log in" \in log

\* what the program reports of a failure
FailureReports ==
    {"FTP login failed", "FTP connection error", "connection error",
     "failed to connect or log in", "failed to connect or log in for deletion",
     "failed to open data connection", "failed to start file transfer",
     "failed to delete file", "mv: failed to download", "mv: failed to upload",
     "mv: failed to delete the local source", "mv: failed to delete the remote source",
     "cp: unsupported", "mv: unsupported"}

\* C15: mkdir, rmdir and rm read one reply to MKD, RMD and DELE: 257, 250
\* and 250 are a success, and after any other code (here 550) a failure is
\* reported and no success.
C15_SingleReplyInterpreted ==
    LET op == sess["op"].op
    IN (op \in {"mkdir", "rmdir", "rm"} /\ Read("op", 550) /\ ~crashed) =>
           /\ log \cap FailureReports # {}
           /\ "file deleted" \notin log

\* no event is due in session s: nothing is on its way to the client, the
\* server has nothing to answer, to store or to close, and the pipe is not
\* running; only a socket error could still happen
QuietSession(s) ==
    LET ss == sess[s]
    IN /\ ~ss.errPending
       /\ ~(ss.ctrl = "connecting" /\ parseURL(ss.url).host = ServerHost)
       /\ ss.ctrl \in {"open", "ended"} =>
             /\ ss.inflight = <<>>
             /\ ss.srvOpen
             /\ ss.srvPos = Len(ss.sent)
             /\ ss.ctrl = "ended" => ss.srvData = "receiving"
       /\ ~(ss.srvData = "receiving" /\ ss.dEnded)
       /\ ~(ss.d = "connecting" /\ ss.srvData = "listening"
               /\ ss.daddr = Endpoint(ss.listen))
       /\ ss.d = "open" => (ss.dIn = <<>> /\ ~ss.dFin /\ ss.pipe # "piping")

\* the command has come to rest
Quiet == crashed \/ \A s \in SessionIds : QuietSession(s)

\* every socket the client has made has been ended by the client or is
\* closed
AllEnded ==
    \A s \in SessionIds :
        /\ sess[s].ctrl \in {"none", "ended", "closed"}
        /\ sess[s].d \in {"none", "closed"} \/ sess[s].dEnded

\* C16: when the command has come to rest, each socket the client has made
\* is ended or closed (or the process has died of an exception, which
\* closes them).
C16_SocketsClosed == Quiet => (AllEnded \/ crashed)

\* a command written on the control connection has no reply yet
Unanswered(s) == sess[s].srvPos < Len(sess[s].sent)

\* C17: when the control socket of a session the server has greeted with
\* 220 has had an error, or has been closed by the server, while a command
\* was waiting for its reply, a connection error has been reported.
C17_ConnectionLossReported ==
    \A s \in SessionIds :
        (/\ sess[s].ctrl = "closed" /\ Unanswered(s) /\ ~crashed
         /\ sess[s].rd # <<>> /\ sess[s].rd[1] = 220) =>
            "FTP connection error" \in log

\* C18: after a store that reported its completion and a retrieve of the
\* same path that was completed by 226 and has read the end of its data,
\* the local file is the file that was stored, chunk for chunk.
C18_RoundTrip ==
    (/\ cmd = RetrieveCommand
     /\ "file upload completed" \in log
     /\ Read("op", 226)
     /\ sess["op"].d = "closed"
     /\ ~crashed)
        => fs.local = fs.kept

\* C18's case: a file of several chunks has made the round trip
C18_Witness ==
    /\ cmd = RetrieveCommand
    /\ "file upload completed" \in log
    /\ Read("op", 226)
    /\ sess["op"].d = "closed"
    /\ ~crashed
    /\ Len(fs.kept.data) > 1
    /\ fs.local = fs.kept

\* a chunk has been streamed in session s: appended to the listing,
\* written to the local file, or written to the data connection
Streamed(s) ==
    CASE sess[s].op = "ls" -> sess[s].listingData # <<>>
      [] sess[s].op = "download" -> fs.local.data # <<>>
      [] sess[s].op = "upload" -> sess[s].dOut # <<>>
      [] OTHER -> FALSE

\* C19: no chunk is streamed (appended to the listing, written to the local
\* file, written to the data connection) before a positive preliminary
\* reply, 150 or 125, has been read from the control connection.
C19_StreamAfterPreliminary ==
    \A s \in SessionIds : Streamed(s) => (Read(s, 150) \/ Read(s, 125))

\* the transfer has failed: a negative preliminary reply, a failure to open
\* the data connection, or an error of the control socket has been reported
TransferFailed ==
    /\ sess["op"].op \in {"ls", "download", "upload"}
    /\ \/ "failed to start file transfer" \in log
       \/ "failed to open data connection" \in log
       \/ "FTP connection error" \in log

\* C20: from a state in which the transfer has failed, no step appends to
\* the listing, writes to the local file of a download, writes to the data
\* connection, or reports completion.
C20_NoStreamingAfterFailure ==
    [][TransferFailed =>
          /\ sess["op"].listingData' = sess["op"].listingData
          /\ sess["op"].dOut' = sess["op"].dOut
          /\ sess["op"].op = "download" => fs.local.data' = fs.local.data
          /\ CompletionReported' => CompletionReported]_vars

\* C21: in a download whose transfer was started by a 150 reply, the local
\* write stream is ended only when a final 226 reply has been read from the control
\* connection; the end of the data alone does not end it.
C21_SinkClosedAfter226 ==
    (/\ sess["op"].op = "download"
     /\ Read("op", 150)
     /\ sess["op"].fileStream = "ended")
        => Read("op", 226)

\* C22: in an upload whose pipe was started, the data socket is ended
\* exactly when the source is exhausted, and the control connection is not
\* ended by the client before the final 226 reply has been read.
C22_ControlOpenUntilFinalReply ==
    (sess["op"].op = "upload" /\ sess["op"].pipe # "none") =>
        /\ sess["op"].dEnded <=> sess["op"].pipe = "finished"
        /\ (sess["op"].ctrl = "ended" /\ ~crashed) => Read("op", 226)

ErrorReport(s) ==
    IF sess[s].op = "rm" THEN "failed to connect or log in for deletion"
    ELSE "failed to connect or log in"

\* the first command a continuation writes once logged in
FirstCommand(op) ==
    CASE op = "mkdir" -> "MKD" [] op = "rmdir" -> "RMD" [] op = "rm" -> "DELE"
      [] OTHER -> "PASV"

\* C24: the continuation given to connectToFtpServer is called at most
\* once, with the logged-in client or with an error and not both; the
\* first command after the login is written at most once in a session and
\* at most one data socket is made.
C24_ContinuationOnce ==
    \A s \in SessionIds :
        /\ sess[s].conts <= 1
        /\ sess[s].conts = 1 => ErrorReport(s) \notin log
        /\ CountSent(s, FirstCommand(sess[s].op)) <= 1
        /\ sess[s].dcount <= 1

OperationVerbs == {"PASV", "LIST", "RETR", "STOR", "MKD", "RMD", "DELE"}

\* C25: PASV, LIST, RETR, STOR, MKD, RMD and DELE are written on a control
\* connection only when a 230 reply has been read on that connection.
C25_CommandsAfterLogin ==
    \A s \in SessionIds :
        (\E v \in OperationVerbs : Sent(s, v)) => Read(s, 230)

\* C26: a download that has failed before any positive preliminary reply
\* (the login was refused, the reply to PASV was no usable 227, or RETR
\* was refused) leaves the local destination as it was: in these runs,
\* absent.
C26_DestinationUntouched ==
    (/\ sess["op"].op = "download"
     /\ ~Read("op", 150) /\ ~Read("op", 125)
     /\ \/ Read("op", 530)
        \/ BadPasvRead("op")
        \/ Read("op", 550) \/ Read("op", 425))
        => fs.local = Absent

\* C27: cp deletes nothing: no fs.unlink is called, handleRmCommand is not
\* called and no DELE is written, and no step changes the source of the
\* copy (the local file of an upload, the remote file of a download).
C27_CpDeletesNothing ==
    /\ [](cmd.name = "cp" => (~UnlinkCalled /\ ~DeleteStarted))
    /\ [][cmd.name = "cp" =>
             IF IsFtp(cmd.source) THEN fs.remote' = fs.remote
             ELSE fs.local' = fs.local]_vars

\* C27's case: a cp has run to its end with a final 226, source and copy
\* both in place
C27_Witness ==
    /\ cmd.name = "cp"
    /\ Finished /\ ~crashed
    /\ CompletionReported /\ Read("op", 226)
    /\ fs.local.exists /\ fs.remote.exists
    /\ fs.local.data = fs.remote.data
    /\ fs.local.data # <<>>

\* C28: the rm command, which gives handleRmCommand no callback, never
\* calls the absent callback: no run of rm ends with the TypeError of a
\* call of undefined, whatever the outcome.
C28_NoCallThroughAbsentCallback ==
    cmd.name = "rm" =>
        /\ "TypeError: callback is not a function" \notin log
        /\ ~crashed

=============================================================================
